---------------------------- MODULE Spec2Model ----------------------------
(***************************************************************************)
(* A model of py-lightpack's Lightpack class (src/lightpack.py): one       *)
(* session object, its connection handle, its lazily filled caches, and    *)
(* one action per public method.  Every action is the whole method call:   *)
(* the commands it writes, the response lines it reads, the cache fields   *)
(* it assigns and the value it returns or the exception it raises.         *)
(*                                                                         *)
(* Python strings are TLA+ strings, taken apart with Head/Tail/SubSeq.     *)
(* Python None is the record NoneV; an optional value is NoneV or a        *)
(* record [some |-> v].                                                    *)
(***************************************************************************)
EXTENDS Integers, Sequences, FiniteSets, TLC

(***************************************************************************)
(* Python string primitives used by the source.                            *)
(***************************************************************************)

Digits == {"0", "1", "2", "3", "4", "5", "6", "7", "8", "9"}

\* str.isspace() for the characters a response line can hold.
Whitespace == {" ", "\t"}

DigitVal(c) ==
  CASE c = "0" -> 0 [] c = "1" -> 1 [] c = "2" -> 2 [] c = "3" -> 3
    [] c = "4" -> 4 [] c = "5" -> 5 [] c = "6" -> 6 [] c = "7" -> 7
    [] c = "8" -> 8 [] c = "9" -> 9

DigitChar(d) == SubSeq("0123456789", d + 1, d + 1)

\* s[i], one character
At(s, i) == SubSeq(s, i, i)

\* str.find(c) + 1: the position of the first c in s, 0 when there is none
RECURSIVE FindFrom(_, _, _)
FindFrom(s, c, i) ==
  IF i > Len(s) THEN 0
  ELSE IF At(s, i) = c THEN i
  ELSE FindFrom(s, c, i + 1)

Find(s, c) == FindFrom(s, c, 1)

\* s.split(sep, maxsplit) for a one-character sep: at most maxsplit cuts,
\* from the left; always at least one part.
RECURSIVE Split(_, _, _)
Split(s, sep, maxsplit) ==
  LET i == Find(s, sep) IN
  IF maxsplit = 0 \/ i = 0 THEN <<s>>
  ELSE <<SubSeq(s, 1, i - 1)>>
         \o Split(SubSeq(s, i + 1, Len(s)), sep, maxsplit - 1)

\* s.split(sep): no limit on the cuts (a string of n characters has < n + 1)
SplitAll(s, sep) == Split(s, sep, Len(s) + 1)

\* s.rstrip(c)
RECURSIVE RStrip(_, _)
RStrip(s, c) ==
  IF Len(s) > 0 /\ At(s, Len(s)) = c
  THEN RStrip(SubSeq(s, 1, Len(s) - 1), c)
  ELSE s

RECURSIVE LStripWs(_)
LStripWs(s) ==
  IF Len(s) > 0 /\ Head(s) \in Whitespace THEN LStripWs(Tail(s)) ELSE s

RECURSIVE RStripWs(_)
RStripWs(s) ==
  IF Len(s) > 0 /\ At(s, Len(s)) \in Whitespace
  THEN RStripWs(SubSeq(s, 1, Len(s) - 1))
  ELSE s

\* s.strip()
Strip(s) == RStripWs(LStripWs(s))

AllDigits(s) == Len(s) > 0 /\ \A i \in 1..Len(s) : At(s, i) \in Digits

RECURSIVE DigitsVal(_, _)
DigitsVal(s, acc) ==
  IF Len(s) = 0 THEN acc
  ELSE DigitsVal(Tail(s), 10 * acc + DigitVal(Head(s)))

\* int(s) of a str: surrounding whitespace is dropped, one sign is allowed,
\* then decimal digits only; anything else is a ValueError.
IntOk_scan(s) ==
  LET t == Strip(s)
      u == IF Len(t) > 0 /\ Head(t) \in {"+", "-"} THEN Tail(t) ELSE t
  IN AllDigits(u)

IntVal_scan(s) ==
  LET t == Strip(s)
      neg == Len(t) > 0 /\ Head(t) = "-"
      u == IF Len(t) > 0 /\ Head(t) \in {"+", "-"} THEN Tail(t) ELSE t
  IN IF neg THEN 0 - DigitsVal(u, 0) ELSE DigitsVal(u, 0)

\* '%d' % n
RECURSIVE NatToStr(_)
NatToStr(n) ==
  IF n < 10 THEN DigitChar(n)
  ELSE NatToStr(n \div 10) \o DigitChar(n % 10)

IntToStr(n) == IF n < 0 THEN "-" \o NatToStr(0 - n) ELSE NatToStr(n)

\* ';'.join(parts)
RECURSIVE Join(_, _)
Join(parts, sep) ==
  IF Len(parts) = 0 THEN ""
  ELSE IF Len(parts) = 1 THEN parts[1]
  ELSE parts[1] \o sep \o Join(Tail(parts), sep)

\* s.startswith(p)
StartsWith(s, p) == Len(s) >= Len(p) /\ SubSeq(s, 1, Len(p)) = p


(***************************************************************************)
(* Python values.                                                          *)
(***************************************************************************)

\* None
NoneV == [none |-> TRUE]

\* any object other than None
Some(v) == [some |-> v]

\* How a call ends: it returns a value, or an exception escapes it.
Return(v) == [kind |-> "return", value |-> v]

Raise(e) == [kind |-> "raise", exc |-> e]

\* class CommandFailedError: the three fields its constructor stores
CommandFailedError(command, response, expected) ==
  [kind |-> "raise", exc |-> "CommandFailedError",
   command |-> command, response |-> response, expected |-> expected]

\* class CannotConnectError: the cause its constructor stores
CannotConnectError(cause) ==
  [kind |-> "raise", exc |-> "CannotConnectError", cause |-> cause]

\* One transport event: a command line written, a response line read.
Snd(command) == <<"send", command>>

Rcv(line) == <<"recv", line>>

\* The command lines a call wrote, in order.
Sent(io) == SelectSeq(io, LAMBDA e : e[1] = "send")

(***************************************************************************)
(* Bounds of the model.                                                    *)
(***************************************************************************)

\* Public method calls made on one session object.
MaxCalls == 3

\* Items in one payload of getcolors or getleds, and assignments in one
\* setcolor command, of the codec specification.
MaxItems == 3

(***************************************************************************)
(* The session object: self holds the fields __init__ assigns, last is the *)
(* most recent public call (method, arguments, transport events, outcome), *)
(* calls counts the calls made, and connected records whether some         *)
(* connect() has returned normally.                                        *)
(***************************************************************************)
VARIABLES self, last, calls, connected

vars == <<self, last, calls, connected>>

\* The constructor calls: Lightpack() with the defaults led_map=None and
\* api_key=None, and Lightpack(led_map=['left', 'right'], api_key='secret').
\* api_key is read by connect alone and led_map by _ledIndex alone.
Constructions ==
  {[led_map |-> NoneV, api_key |-> NoneV],
   [led_map |-> Some(<<"left", "right">>), api_key |-> Some("secret")]}

\* Lightpack.__init__
Init ==
  /\ \E c \in Constructions :
       self = [led_map |-> c.led_map,
               api_key |-> c.api_key,
               connection |-> "None",
               _countLeds |-> NoneV,
               _countMonitors |-> NoneV,
               _devices |-> <<>>,
               _ledSizes |-> [list |-> <<>>],
               _maxLeds |-> NoneV,
               _monitor |-> <<>>,
               _profiles |-> <<>>,
               _screenSize |-> NoneV]
  /\ last = [op |-> "__init__", args |-> <<>>, io |-> <<>>,
             out |-> Return(NoneV)]
  /\ calls = 0
  /\ connected = FALSE

(***************************************************************************)
(* Results.  A method is an operator from the object s, the arguments and  *)
(* the response lines the server will send to the result of the call:      *)
(* the object afterwards, the transport events, and the outcome.  Where a  *)
(* method uses the result of a call it makes, the rest of its body is an   *)
(* operator of that result, named <method>_<step>.                         *)
(***************************************************************************)

Res(s, io, out) == [self |-> s, io |-> io, out |-> out]

\* The result r of a call that leaves the object s as it is.
On(s, r) == Res(s, r.io, r.out)

\* The result r of a call made after the call with result d.
After(d, r) == Res(r.self, d.io \o r.io, r.out)

(***************************************************************************)
(* What the caller passes and what the server answers.                     *)
(***************************************************************************)

Greetings ==
  {"Lightpack API v1.3", "Lightpack API v1.4", "Lightpack API v1.5",
   "Lightpack API v1.6", "Lightpack API v1.4.1", "Lightpack API v1.5.0",
   "Lightpack API v1.5.1", "Lightpack API v1.10", "Lightpack API v2.0",
   "Lightpack API v1.4a1", "Lightpack API v1.5b2",
   "Lightpack API v1.4 (locked)",
   "Lightpack API v1", "Lightpack API v1.x", "Lightpack API v",
   "Lightpack v1.4", " Lightpack API v1.4", "Prismatik API v1.4", ""}

\* The ways reaching the server fails before a greeting is read.
SocketFailures == {"refused", "silent"}

KeyLines == {"ok", "okay", "fail"}

OkLines == {"ok", "okay", "error"}

\* The answers drawn where the operation does nothing else with the line
\* than the operations drawing from OkLines do.
SetLines == {"ok", "error"}

SuccessLines ==
  {"lock:success", "unlock:success", "lock:busy", "unlock:not locked"}

\* Answers to a command whose payload is an integer.
CountLines(command) ==
  {command \o ":1", command \o ":2", command \o ":many", command}

\* Answers to a command whose payload is a list of names.
NameLines(command) ==
  {command \o ":Lightpack;Movie;", command \o ":", command}

\* Answers to a command whose payload is a rectangle.
RectLines(command) ==
  {command \o ":0,0,100,50", command \o ":", command \o ":0,0,100",
   command \o ":0,0,100,50,7", command \o ":a,b,c,d", command}

\* Answers to the getcountleds of an index resolution.
IndexCountLines == {"getcountleds:2", "getcountleds"}

\* Answers to a command whose payload is one word.
WordLines(command) == {command \o ":on", command}

Monitors == {0, 1}

LedRefs ==
  {[index |-> 0], [index |-> 2], [alias |-> "right"], [alias |-> "top"]}

Rectangles == {<<0, 0, 10, 20>>}

Names == {"Movie"}

Counts == {2}

Colours == {<<255, 0, 0>>}

\* The argument lists of getColours: two LED references.
LedArgs ==
  {<<[index |-> 0], [alias |-> "right"]>>,
   <<[alias |-> "top"], [index |-> 0]>>}

\* The argument lists of setColours: two (led, rgb) pairs.
ColourArgs ==
  {<<<<a[1], rgb>>, <<a[2], rgb>>>> :
     a \in {<<[index |-> 0], [alias |-> "right"]>>,
            <<[index |-> 0], [index |-> 2]>>},
     rgb \in Colours}

\* Answers to getcolors.
ColourLines ==
  {"getcolors:1-255,0,0;2-0,0,255;", "getcolors:1-255,0,0;;x;2-5,5",
   "getcolors"}

\* Answers to getleds.
LedSizeLines ==
  {"getleds:1-0,0,10,20;2-10,0,10,20;", "getleds:1-0,0,10,20;;2-0,0,10",
   "getleds"}

\* The argument lists of setSizes: two (led, rectangle) pairs.
SizeArgs ==
  {<<<<a[1], r>>, <<a[2], r>>>> :
     a \in {<<[index |-> 0], [alias |-> "right"]>>,
            <<[alias |-> "right"], [index |-> 2]>>,
            <<[index |-> 0], [index |-> 2]>>,
            <<[index |-> 0], [alias |-> "top"]>>},
     r \in Rectangles}

(***************************************************************************)
(* Command dispatch.  conn is self.connection: "None" before the first     *)
(* connect() reaches the socket, "open" once a socket is stored, "closed"  *)
(* after close().  line is the response line the server sends.             *)
(***************************************************************************)

\* _commandPart: string.split(':', 1)[part], None on IndexError
_commandPart(string, part) ==
  IF part + 1 <= Len(Split(string, ":", 1))
  THEN Some(Split(string, ":", 1)[part + 1])
  ELSE NoneV

_name(string) == _commandPart(string, 0)

(***************************************************************************)
(* The conversions of the texts the server can send are computed once, as  *)
(* functions on those texts; a text outside them is converted directly.    *)
(***************************************************************************)

\* Every line the server can send in answer to a command.
Lines ==
  KeyLines \cup OkLines \cup SuccessLines \cup IndexCountLines \cup ColourLines \cup LedSizeLines
    \cup UNION {CountLines(c) :
                  c \in {"getcountleds", "getmaxleds", "countmonitors",
                         "getfps"}}
    \cup UNION {NameLines(c) : c \in {"getdevices", "getprofiles"}}
    \cup RectLines("getscreensize") \cup RectLines("getsizemonitor")
    \cup UNION {WordLines(c) :
                  c \in {"getdevice", "getmode", "getprofile", "getstatus",
                         "getlockstatus", "getstatusapi"}}

PayloadOf == [line \in Lines |-> _commandPart(line, 1)]

_payload(string) ==
  IF string \in Lines THEN PayloadOf[string] ELSE _commandPart(string, 1)

\* Every payload the server can send.
Payloads == {PayloadOf[line].some : line \in {x \in Lines : PayloadOf[x] # NoneV}}

IntOkOf == [s \in Payloads |-> IntOk_scan(s)]

IntOk(s) == IF s \in Payloads THEN IntOkOf[s] ELSE IntOk_scan(s)

IntValOf == [s \in {x \in Payloads : IntOkOf[x]} |-> IntVal_scan(s)]

IntVal(s) == IF s \in DOMAIN IntValOf THEN IntValOf[s] ELSE IntVal_scan(s)

\* _sendAndReceive: _send then _readResult.  On None the attribute lookup
\* self.connection.send raises AttributeError, on a closed socket send
\* raises OSError; neither writes anything.
\* A faulty _sendAndReceive: the command is written and no line is read.
_sendAndReceive_unread(conn, command, line) ==
  IF conn = "None" THEN [exc |-> "AttributeError", io |-> <<>>, line |-> ""]
  ELSE IF conn = "closed" THEN [exc |-> "OSError", io |-> <<>>, line |-> ""]
  ELSE [exc |-> "", io |-> <<Snd(command)>>, line |-> ""]

_sendAndReceive(conn, command, line) ==
  IF conn = "None" THEN [exc |-> "AttributeError", io |-> <<>>, line |-> ""]
  ELSE IF conn = "closed" THEN [exc |-> "OSError", io |-> <<>>, line |-> ""]
  ELSE [exc |-> "", io |-> <<Snd(command), Rcv(line)>>, line |-> line]

_sendAndReceivePayload_of(r) ==
  [exc |-> r.exc, io |-> r.io,
   payload |-> IF r.exc = "" THEN _payload(r.line) ELSE NoneV]

_sendAndReceivePayload(conn, command, line) ==
  _sendAndReceivePayload_of(_sendAndReceive(conn, command, line))

\* A faulty comparison: a response that merely starts with the expected
\* text passes.
_sendAndExpect_prefix(r, command, expected_response) ==
  IF r.exc # "" THEN [io |-> r.io, out |-> Raise(r.exc)]
  ELSE IF StartsWith(r.line, expected_response)
  THEN [io |-> r.io, out |-> Return(NoneV)]
  ELSE [io |-> r.io,
        out |-> CommandFailedError(command, r.line, expected_response)]

\* _sendAndExpect, from the response on
_sendAndExpect_compare(r, command, expected_response) ==
  IF r.exc # "" THEN [io |-> r.io, out |-> Raise(r.exc)]
  ELSE IF r.line = expected_response
  THEN [io |-> r.io, out |-> Return(NoneV)]
  ELSE [io |-> r.io,
        out |-> CommandFailedError(command, r.line, expected_response)]

_sendAndExpect(conn, command, expected_response, line) ==
  _sendAndExpect_compare(_sendAndReceive(conn, command, line),
                         command, expected_response)

_sendAndExpectOk(conn, command, line) ==
  _sendAndExpect(conn, command, "ok", line)

\* '%s:success' % self._name(command)
_sendAndExpectSuccess(conn, command, line) ==
  _sendAndExpect(conn, command, _name(command).some \o ":success", line)

(***************************************************************************)
(* The greeting and the version check of connect().                        *)
(***************************************************************************)

\* The length of the longest prefix of s made of characters of set cs.
RECURSIVE SpanLen(_, _)
SpanLen(s, cs) ==
  IF Len(s) > 0 /\ Head(s) \in cs THEN 1 + SpanLen(Tail(s), cs) ELSE 0

\* The length of the longest prefix of s without whitespace: what \S+ takes.
RECURSIVE NonSpaceLen(_)
NonSpaceLen(s) ==
  IF Len(s) > 0 /\ Head(s) \notin Whitespace
  THEN 1 + NonSpaceLen(Tail(s))
  ELSE 0

GreetingPrefix == "Lightpack API v"

\* re.match(r'^Lightpack API v(\S+)', greeting): None, or group(1)
GreetingMatch_scan(greeting) ==
  IF ~StartsWith(greeting, GreetingPrefix) THEN NoneV
  ELSE LET rest == SubSeq(greeting, Len(GreetingPrefix) + 1, Len(greeting))
           n == NonSpaceLen(rest)
       IN IF n = 0 THEN NoneV ELSE Some(SubSeq(rest, 1, n))

\* distutils' StrictVersion(vstring): the text must be
\* ^(\d+)\.(\d+)(\.(\d+))?([ab](\d+))?$ ; version is (major, minor, patch)
\* with patch 0 when absent, prerelease is None or (letter, number).
\* NoneV stands for the ValueError an invalid text raises.
StrictVersion_parse(vstring) ==
  LET n1 == SpanLen(vstring, Digits)
      r1 == SubSeq(vstring, n1 + 1, Len(vstring))
      r2 == IF Len(r1) > 0 THEN Tail(r1) ELSE ""
      n2 == SpanLen(r2, Digits)
      r3 == SubSeq(r2, n2 + 1, Len(r2))
      p3 == IF Len(r3) > 0 /\ Head(r3) = "." THEN SpanLen(Tail(r3), Digits)
            ELSE 0
      r4 == IF p3 > 0 THEN SubSeq(r3, p3 + 2, Len(r3)) ELSE r3
      p4 == IF Len(r4) > 0 /\ Head(r4) \in {"a", "b"}
            THEN SpanLen(Tail(r4), Digits) ELSE 0
      r5 == IF p4 > 0 THEN SubSeq(r4, p4 + 2, Len(r4)) ELSE r4
  IN IF n1 = 0 \/ Len(r1) = 0 \/ Head(r1) # "." \/ n2 = 0 \/ Len(r5) > 0
     THEN NoneV
     ELSE Some([version |->
                  <<DigitsVal(SubSeq(vstring, 1, n1), 0),
                    DigitsVal(SubSeq(r2, 1, n2), 0),
                    IF p3 > 0 THEN DigitsVal(SubSeq(r3, 2, p3 + 1), 0) ELSE 0>>,
                prerelease |->
                  IF p4 > 0
                  THEN Some(<<Head(r4), DigitsVal(SubSeq(r4, 2, p4 + 1), 0)>>)
                  ELSE NoneV])

GreetingMatchOf == [greeting \in Greetings |-> GreetingMatch_scan(greeting)]

GreetingMatch(greeting) ==
  IF greeting \in Greetings THEN GreetingMatchOf[greeting]
  ELSE GreetingMatch_scan(greeting)

\* The version texts of the greetings, and the two bounds of the range.
VersionTexts ==
  {GreetingMatchOf[g].some : g \in {x \in Greetings : GreetingMatchOf[x] # NoneV}}
    \cup {"1.4", "1.5"}

StrictVersionOf == [vstring \in VersionTexts |-> StrictVersion_parse(vstring)]

StrictVersion(vstring) ==
  IF vstring \in VersionTexts THEN StrictVersionOf[vstring]
  ELSE StrictVersion_parse(vstring)

\* Python's ordering of tuples of three integers
TupleLess(a, b) ==
  \/ a[1] < b[1]
  \/ a[1] = b[1] /\ a[2] < b[2]
  \/ a[1] = b[1] /\ a[2] = b[2] /\ a[3] < b[3]

\* StrictVersion._cmp(v, w) < 0: by version, then a prerelease sorts before
\* the release it precedes, and two prereleases by (letter, number).
VersionLess(v, w) ==
  \/ TupleLess(v.version, w.version)
  \/ /\ v.version = w.version
     /\ \/ v.prerelease # NoneV /\ w.prerelease = NoneV
        \/ /\ v.prerelease # NoneV /\ w.prerelease # NoneV
           /\ LET p == v.prerelease.some
                  q == w.prerelease.some
              IN \/ (p[1] = "a" /\ q[1] = "b")
                 \/ (p[1] = q[1] /\ p[2] < q[2])

\* Supported API version range
API_VERSION_GTE == StrictVersion("1.4").some

API_VERSION_LTE == StrictVersion("1.5").some

\* A faulty range check: the upper bound is taken as exclusive.
VersionUnsupported_exclusive(version) ==
  VersionLess(version, API_VERSION_GTE) \/ ~VersionLess(version, API_VERSION_LTE)

\* version < API_VERSION_GTE or version > API_VERSION_LTE
VersionUnsupported(version) ==
  VersionLess(version, API_VERSION_GTE) \/ VersionLess(API_VERSION_LTE, version)

(***************************************************************************)
(* The methods.                                                            *)
(***************************************************************************)

\* int(x) of a payload: TypeError on None, ValueError on a str that is no
\* integer, "" when it converts
IntExc(x) ==
  IF x = NoneV THEN "TypeError"
  ELSE IF ~IntOk(x.some) THEN "ValueError"
  ELSE ""

IntList_of(kept) ==
  IF \E i \in 1..Len(kept) : ~IntOk(kept[i]) THEN NoneV
  ELSE Some([i \in 1..Len(kept) |-> IntVal(kept[i])])

\* [int(x) for x in coordinates if x.strip()]: NoneV stands for the
\* ValueError of an element that is no integer
IntList(coordinates) ==
  IntList_of(SelectSeq(coordinates, LAMBDA x : Strip(x) # ""))

\* The rectangle of getScreenSize and getMonitorSize: the integers of
\* response.split(',', 3)
Rectangle_split(payload) == IntList(Split(payload, ",", 3))

RectangleOf == [payload \in Payloads |-> Rectangle_split(payload)]

Rectangle(payload) ==
  IF payload \in Payloads THEN RectangleOf[payload]
  ELSE Rectangle_split(payload)

\* A faulty end of connect: the answer to the API key is not looked at.
connect_key_ignored(s1, io1, r) == Res(s1, io1 \o r.io, Return(NoneV))

\* connect, lines 507-509: the answer r to 'apikey:<key>'
connect_key(s1, io1, r) ==
  IF r.line # "ok"
  THEN Res(s1, io1 \o r.io, CannotConnectError("bad API key"))
  ELSE Res(s1, io1 \o r.io, Return(NoneV))

\* connect, lines 499-509: version is what StrictVersion() gave
connect_version(s1, io1, version, keyline) ==
  IF version = NoneV THEN Res(s1, io1, Raise("ValueError"))
  ELSE IF VersionUnsupported(version.some)
  THEN Res(s1, io1, CannotConnectError("API version is not supported"))
  ELSE IF s1.api_key # NoneV
  THEN connect_key(s1, io1,
                   _sendAndReceive(s1.connection,
                                   "apikey:" \o s1.api_key.some, keyline))
  ELSE Res(s1, io1, Return(NoneV))

\* connect, lines 497-509: match is what re.match() gave.  match.group(1)
\* of line 498 raises AttributeError on None, so the test of line 501 is
\* never reached with match None.
connect_match(s1, io1, match, keyline) ==
  IF match = NoneV THEN Res(s1, io1, Raise("AttributeError"))
  ELSE connect_version(s1, io1, StrictVersion(match.some), keyline)

\* connect.  sock is what the network does: "refused" (socket.connect
\* raises, self.connection is not assigned), "silent" (the socket is
\* stored, reading the greeting raises) or "greets" (the greeting arrives).
connect(s, sock, greeting, keyline) ==
  IF sock = "refused" THEN Res(s, <<>>, CannotConnectError("exception"))
  ELSE IF sock = "silent"
  THEN Res([s EXCEPT !.connection = "open"], <<>>,
           CannotConnectError("exception"))
  ELSE connect_match([s EXCEPT !.connection = "open"], <<Rcv(greeting)>>,
                     GreetingMatch(greeting), keyline)

\* lock
lock(s, line) == On(s, _sendAndExpectSuccess(s.connection, "lock", line))

\* unlock
unlock(s, line) == On(s, _sendAndExpectSuccess(s.connection, "unlock", line))

\* A faulty disconnect: the failure of the unlock is not caught.
disconnect_uncaught(s, u) ==
  IF u.out.kind = "raise" THEN u
  ELSE Res([s EXCEPT !.connection = "closed"], u.io, Return(NoneV))

\* disconnect, from the result u of unlock() on: CommandFailedError is
\* passed over, then close()
disconnect_close(s, u) ==
  IF u.out.kind = "raise" /\ u.out.exc # "CommandFailedError" THEN u
  ELSE Res([s EXCEPT !.connection = "closed"], u.io, Return(NoneV))

\* disconnect
disconnect(s, line) == disconnect_close(s, unlock(s, line))

\* payload.rstrip(';').split(';')
NameList_split(payload) == SplitAll(RStrip(payload, ";"), ";")

NameListOf == [payload \in Payloads |-> NameList_split(payload)]

NameList(payload) ==
  IF payload \in Payloads THEN NameListOf[payload]
  ELSE NameList_split(payload)

\* getDevices, from the payload on
getDevices_store(s, r) ==
  IF r.exc # "" THEN Res(s, r.io, Raise(r.exc))
  ELSE IF r.payload = NoneV THEN Res(s, r.io, Raise("AttributeError"))
  ELSE Res([s EXCEPT !._devices = NameList(r.payload.some)], r.io,
           Return(Some(NameList(r.payload.some))))

\* getDevices
getDevices(s, fresh, line) ==
  IF fresh \/ s._devices = <<>>
  THEN getDevices_store(s, _sendAndReceivePayload(s.connection,
                                                  "getdevices", line))
  ELSE Res(s, <<>>, Return(Some(s._devices)))

\* getProfiles, from the payload on
getProfiles_store(s, r) ==
  IF r.exc # "" THEN Res(s, r.io, Raise(r.exc))
  ELSE IF r.payload = NoneV THEN Res(s, r.io, Raise("AttributeError"))
  ELSE Res([s EXCEPT !._profiles = NameList(r.payload.some)], r.io,
           Return(Some(NameList(r.payload.some))))

\* A faulty getProfiles: the cached list is never used.
getProfiles_nocache(s, fresh, line) ==
  getProfiles_store(s, _sendAndReceivePayload(s.connection,
                                              "getprofiles", line))

\* getProfiles
getProfiles(s, fresh, line) ==
  IF fresh \/ s._profiles = <<>>
  THEN getProfiles_store(s, _sendAndReceivePayload(s.connection,
                                                   "getprofiles", line))
  ELSE Res(s, <<>>, Return(Some(s._profiles)))

\* getScreenSize, line 329: rectangle is the list of integers, NoneV
\* standing for the ValueError of int(), which ends in return None
getScreenSize_assign(s, io, rectangle) ==
  IF rectangle = NoneV THEN Res(s, io, Return(NoneV))
  ELSE Res([s EXCEPT !._screenSize = rectangle], io, Return(rectangle))

\* getScreenSize, from the payload on.  An AttributeError (of the
\* transport, or of split on a missing payload) ends in return None.
getScreenSize_store(s, r) ==
  IF r.exc = "AttributeError" THEN Res(s, r.io, Return(NoneV))
  ELSE IF r.exc # "" THEN Res(s, r.io, Raise(r.exc))
  ELSE IF r.payload = NoneV THEN Res(s, r.io, Return(NoneV))
  ELSE getScreenSize_assign(s, r.io, Rectangle(r.payload.some))

\* getScreenSize
getScreenSize(s, fresh, line) ==
  IF fresh \/ s._screenSize = NoneV
  THEN getScreenSize_store(s, _sendAndReceivePayload(s.connection,
                                                     "getscreensize", line))
  ELSE Res(s, <<>>, Return(s._screenSize))

\* getCountLeds, from the payload on
getCountLeds_store(s, r) ==
  IF r.exc # "" THEN Res(s, r.io, Raise(r.exc))
  ELSE IF IntExc(r.payload) # "" THEN Res(s, r.io, Raise(IntExc(r.payload)))
  ELSE Res([s EXCEPT !._countLeds = Some(IntVal(r.payload.some))], r.io,
           Return(Some(IntVal(r.payload.some))))

\* getCountLeds
getCountLeds(s, fresh, line) ==
  IF fresh \/ s._countLeds = NoneV
  THEN getCountLeds_store(s, _sendAndReceivePayload(s.connection,
                                                    "getcountleds", line))
  ELSE Res(s, <<>>, Return(s._countLeds))

\* getMaxLeds, from the payload on
getMaxLeds_store(s, r) ==
  IF r.exc # "" THEN Res(s, r.io, Raise(r.exc))
  ELSE IF IntExc(r.payload) # "" THEN Res(s, r.io, Raise(IntExc(r.payload)))
  ELSE Res([s EXCEPT !._maxLeds = Some(IntVal(r.payload.some))], r.io,
           Return(Some(IntVal(r.payload.some))))

\* A faulty getMaxLeds: fresh is ignored once a value is cached.
getMaxLeds_stale(s, fresh, line) ==
  IF s._maxLeds = NoneV
  THEN getMaxLeds_store(s, _sendAndReceivePayload(s.connection,
                                                  "getmaxleds", line))
  ELSE Res(s, <<>>, Return(s._maxLeds))

\* getMaxLeds
getMaxLeds(s, fresh, line) ==
  IF fresh \/ s._maxLeds = NoneV
  THEN getMaxLeds_store(s, _sendAndReceivePayload(s.connection,
                                                  "getmaxleds", line))
  ELSE Res(s, <<>>, Return(s._maxLeds))

\* getCountMonitors, from the payload on
getCountMonitors_store(s, r) ==
  IF r.exc # "" THEN Res(s, r.io, Raise(r.exc))
  ELSE IF IntExc(r.payload) # "" THEN Res(s, r.io, Raise(IntExc(r.payload)))
  ELSE Res([s EXCEPT !._countMonitors = Some(IntVal(r.payload.some))], r.io,
           Return(Some(IntVal(r.payload.some))))

\* getCountMonitors
getCountMonitors(s, fresh, line) ==
  IF fresh \/ s._countMonitors = NoneV
  THEN getCountMonitors_store(s, _sendAndReceivePayload(s.connection,
                                                        "countmonitors",
                                                        line))
  ELSE Res(s, <<>>, Return(s._countMonitors))

\* self._monitor[monitor] = value
DictSet(d, k, value) ==
  [x \in DOMAIN d \cup {k} |-> IF x = k THEN value ELSE d[x]]

\* A faulty assignment: the dictionary is replaced by one holding the
\* fetched monitor only.
getMonitorSize_assign_reset(s, monitor, io, rectangle) ==
  IF rectangle = NoneV THEN Res(s, io, Raise("ValueError"))
  ELSE Res([s EXCEPT !._monitor = DictSet(<<>>, monitor, rectangle.some)],
           io, Return(rectangle))

\* getMonitorSize, line 451: rectangle is the list of integers, NoneV
\* standing for the ValueError of int(), which nothing catches
getMonitorSize_assign(s, monitor, io, rectangle) ==
  IF rectangle = NoneV THEN Res(s, io, Raise("ValueError"))
  ELSE Res([s EXCEPT !._monitor = DictSet(@, monitor, rectangle.some)],
           io, Return(rectangle))

\* getMonitorSize, from the payload on.  An AttributeError (of the
\* transport, or of split on a missing payload) ends in return None.
getMonitorSize_store(s, monitor, r) ==
  IF r.exc = "AttributeError" THEN Res(s, r.io, Return(NoneV))
  ELSE IF r.exc # "" THEN Res(s, r.io, Raise(r.exc))
  ELSE IF r.payload = NoneV THEN Res(s, r.io, Return(NoneV))
  ELSE getMonitorSize_assign(s, monitor, r.io,
                             Rectangle(r.payload.some))

\* getMonitorSize
getMonitorSize(s, monitor, fresh, line) ==
  IF fresh \/ DOMAIN s._monitor = {} \/ monitor \notin DOMAIN s._monitor
  THEN getMonitorSize_store(s, monitor,
         _sendAndReceivePayload(s.connection,
                                "getsizemonitor:" \o IntToStr(monitor), line))
  ELSE Res(s, <<>>, Return(Some(s._monitor[monitor])))

PayloadGetter_return(s, r) ==
  IF r.exc # "" THEN Res(s, r.io, Raise(r.exc))
  ELSE Res(s, r.io, Return(r.payload))

\* The getters without a cache return the payload of the response, which
\* is None when the response has no colon.
PayloadGetter(s, command, line) ==
  PayloadGetter_return(s, _sendAndReceivePayload(s.connection, command, line))

\* getDevice
getDevice(s, line) == PayloadGetter(s, "getdevice", line)

\* getMode
getMode(s, line) == PayloadGetter(s, "getmode", line)

\* getProfile
getProfile(s, line) == PayloadGetter(s, "getprofile", line)

\* getStatus
getStatus(s, line) == PayloadGetter(s, "getstatus", line)

\* getLockStatus
getLockStatus(s, line) == PayloadGetter(s, "getlockstatus", line)

\* getApiStatus
getApiStatus(s, line) == PayloadGetter(s, "getstatusapi", line)

getFps_int(s, r) ==
  IF r.exc # "" THEN Res(s, r.io, Raise(r.exc))
  ELSE IF IntExc(r.payload) # "" THEN Res(s, r.io, Raise(IntExc(r.payload)))
  ELSE Res(s, r.io, Return(Some(IntVal(r.payload.some))))

\* getFps
getFps(s, line) ==
  getFps_int(s, _sendAndReceivePayload(s.connection, "getfps", line))

\* The setters of one value send '<command>:%s' % value and expect 'ok'.
\* text is the value as %s renders it.
OkSetter(s, command, text, line) ==
  On(s, _sendAndExpectOk(s.connection, command \o ":" \o text, line))

\* setGamma  gamma is the float as str() renders it.
setGamma(s, gamma, line) == OkSetter(s, "setgamma", gamma, line)

\* setSmoothness
setSmoothness(s, smoothness, line) == OkSetter(s, "setsmooth", IntToStr(smoothness), line)

\* setBrightness
setBrightness(s, brightness, line) == OkSetter(s, "setbrightness", IntToStr(brightness), line)

\* setDevice
setDevice(s, device, line) == OkSetter(s, "setdevice", device, line)

\* setMode
setMode(s, mode, line) == OkSetter(s, "setmode", mode, line)

\* setProfile
setProfile(s, profile, line) == OkSetter(s, "setprofile", profile, line)

\* addProfile
addProfile(s, profile, line) == OkSetter(s, "newprofile", profile, line)

\* deleteProfile
deleteProfile(s, profile, line) == OkSetter(s, "deleteprofile", profile, line)

\* A faulty setCountLeds: the count just set is also written to the cache.
setCountLeds_cached(s, count, line) ==
  On([s EXCEPT !._countLeds = Some(count)],
     _sendAndExpectOk(s.connection, "setcountleds:" \o IntToStr(count), line))

\* setCountLeds
setCountLeds(s, count, line) ==
  OkSetter(s, "setcountleds", IntToStr(count), line)

\* setSession
setSession(s, key, line) == OkSetter(s, "guid", key, line)

\* _setStatus
_setStatus(s, status, line) == OkSetter(s, "setstatus", status, line)

\* turnOn
turnOn(s, line) == _setStatus(s, "on", line)

\* turnOff
turnOff(s, line) == _setStatus(s, "off", line)

(***************************************************************************)
(* LED references.  A reference is [alias |-> str] or [index |-> int],     *)
(* the two cases isinstance(led, basestring) tells apart.                  *)
(***************************************************************************)

\* list.index(x) + 1, 0 standing for the ValueError of an absent x
RECURSIVE IndexOf(_, _, _)
IndexOf(list, x, i) ==
  IF i > Len(list) THEN 0
  ELSE IF list[i] = x THEN i
  ELSE IndexOf(list, x, i + 1)

\* A faulty bounds check: the zero-based index is compared with the count.
_ledIndex_bound_zero(index, c) ==
  IF c.out.kind = "raise" THEN c
  ELSE IF index - 1 > c.out.value.some
  THEN Res(c.self, c.io, Raise("IndexError"))
  ELSE Res(c.self, c.io, Return(Some(index)))

\* _ledIndex, lines 86-89: c is the result of getCountLeds(fresh=False)
_ledIndex_bound(index, c) ==
  IF c.out.kind = "raise" THEN c
  ELSE IF index > c.out.value.some
  THEN Res(c.self, c.io, Raise("IndexError"))
  ELSE Res(c.self, c.io, Return(Some(index)))

\* A faulty _ledIndex: the position of an alias is checked against the
\* LED count too.
_ledIndex_alias_bound(s, led, countline) ==
  IF "alias" \in DOMAIN led
  THEN
    IF s.led_map = NoneV
    THEN Res(s, <<>>, Raise("AliasDoesNotExistError"))
    ELSE IF IndexOf(s.led_map.some, led.alias, 1) = 0
    THEN Res(s, <<>>, Raise("AliasDoesNotExistError"))
    ELSE _ledIndex_bound(IndexOf(s.led_map.some, led.alias, 1),
                         getCountLeds(s, FALSE, countline))
  ELSE _ledIndex_bound(led.index + 1, getCountLeds(s, FALSE, countline))

\* A faulty _ledIndex: with no count cached the index is not checked and
\* nothing is sent.
_ledIndex_offline(s, led, countline) ==
  IF "alias" \in DOMAIN led
  THEN
    IF s.led_map = NoneV
    THEN Res(s, <<>>, Raise("AliasDoesNotExistError"))
    ELSE IF IndexOf(s.led_map.some, led.alias, 1) = 0
    THEN Res(s, <<>>, Raise("AliasDoesNotExistError"))
    ELSE Res(s, <<>>, Return(Some(IndexOf(s.led_map.some, led.alias, 1))))
  ELSE IF s._countLeds = NoneV THEN Res(s, <<>>, Return(Some(led.index + 1)))
  ELSE _ledIndex_bound(led.index + 1, getCountLeds(s, FALSE, countline))

\* _ledIndex.  countline is the response to the getcountleds that
\* getCountLeds(fresh=False) sends when no count is cached.
_ledIndex(s, led, countline) ==
  IF "alias" \in DOMAIN led
  THEN
    IF s.led_map = NoneV
    THEN Res(s, <<>>, Raise("AliasDoesNotExistError"))
    ELSE IF IndexOf(s.led_map.some, led.alias, 1) = 0
    THEN Res(s, <<>>, Raise("AliasDoesNotExistError"))
    ELSE Res(s, <<>>, Return(Some(IndexOf(s.led_map.some, led.alias, 1))))
  ELSE _ledIndex_bound(led.index + 1, getCountLeds(s, FALSE, countline))

\* '%d-%d,%d,%d,%d' of the LED index i and the four fields
_ledSizeDef_format(i, rectangle) ==
  IF i.out.kind = "raise" THEN i
  ELSE Res(i.self, i.io,
           Return(Some(IntToStr(i.out.value.some) \o "-"
                       \o IntToStr(rectangle[1]) \o ","
                       \o IntToStr(rectangle[2]) \o ","
                       \o IntToStr(rectangle[3]) \o ","
                       \o IntToStr(rectangle[4]))))

\* _ledSizeDef
_ledSizeDef(s, led, rectangle, countline) ==
  _ledSizeDef_format(_ledIndex(s, led, countline), rectangle)

\* The command 'setleds:<defs>' is sent after the snippets d were built,
\* unless building them raised.
setLeds_send(d, defs, line) ==
  IF d.out.kind = "raise" THEN d
  ELSE After(d, On(d.self, _sendAndExpectOk(d.self.connection,
                                            "setleds:" \o defs, line)))

\* setSize
setSize_send(d, line) ==
  setLeds_send(d, IF d.out.kind = "raise" THEN "" ELSE d.out.value.some, line)

setSize(s, led, rectangle, countline, line) ==
  setSize_send(_ledSizeDef(s, led, rectangle, countline), line)

\* A faulty append: a reference that does not resolve is left out of the
\* list and the list is carried on.
Defs_append_skip(acc, d) ==
  IF d.out.kind = "raise" THEN Res(d.self, acc.io \o d.io, acc.out)
  ELSE Res(d.self, acc.io \o d.io,
           Return(Some(Append(acc.out.value.some, d.out.value.some))))

\* The snippet d is appended to the list acc built so far.
Defs_append(acc, d) ==
  IF d.out.kind = "raise" THEN After(acc, d)
  ELSE Res(d.self, acc.io \o d.io,
           Return(Some(Append(acc.out.value.some, d.out.value.some))))

\* [self._ledSizeDef(*arg) for arg in args]: the snippets in order, or the
\* first exception.  At most one getcountleds is sent: once it has been
\* answered the count is cached, and when it fails the call ends.
RECURSIVE SizeDefs(_, _, _)
SizeDefs(acc, args, countline) ==
  IF acc.out.kind = "raise" \/ Len(args) = 0 THEN acc
  ELSE SizeDefs(Defs_append(acc, _ledSizeDef(acc.self, args[1][1],
                                             args[1][2], countline)),
                Tail(args), countline)

\* setSizes
setSizes_send(d, line) ==
  setLeds_send(d, IF d.out.kind = "raise" THEN ""
                  ELSE Join(d.out.value.some, ";"), line)

setSizes(s, args, countline, line) ==
  setSizes_send(SizeDefs(Res(s, <<>>, Return(Some(<<>>))), args, countline),
                line)

(***************************************************************************)
(* LED items.  A payload of getcolors or getleds is a list of items        *)
(* '<led>-<n>,<n>,...' joined by ';'.  A dict is a function from its keys. *)
(***************************************************************************)

\* A faulty body, named _ledItemRead_fields_lax: the number of integers
\* read is not compared with n.
\* The body _ledColourRead (n = 3) and _ledDimensionRead (n = 4) share:
\* NoneV is the None returned for an item that is not read, otherwise the
\* pair of the LED number and the tuple of n integers.
_ledItemRead_fields_lax(parts, fields, n) ==
  IF fields = NoneV THEN NoneV
  ELSE IF Strip(parts[1]) = "" THEN NoneV
  ELSE IF ~IntOk(Strip(parts[1])) THEN NoneV
  ELSE Some(<<IntVal(Strip(parts[1])), fields.some>>)

_ledItemRead_fields(parts, fields, n) ==
  IF fields = NoneV THEN NoneV
  ELSE IF Strip(parts[1]) = "" \/ Len(fields.some) # n THEN NoneV
  ELSE IF ~IntOk(Strip(parts[1])) THEN NoneV
  ELSE Some(<<IntVal(Strip(parts[1])), fields.some>>)

_ledItemRead_parts(parts, n) ==
  IF Len(parts) < 2 THEN NoneV
  ELSE _ledItemRead_fields(parts, IntList(Split(parts[2], ",", n - 1)), n)

\* _ledColourRead
_ledColourRead(snippet) == _ledItemRead_parts(Split(snippet, "-", 1), 3)

\* _ledDimensionRead
_ledDimensionRead(command) == _ledItemRead_parts(Split(command, "-", 1), 4)

\* d[data[0]] = data[1] unless data is None
ItemStore(d, data) ==
  IF data = NoneV THEN d ELSE DictSet(d, data.some[1], data.some[2])

\* The loop of getColoursFromAll over the items of the payload.
RECURSIVE ColoursOf(_, _)
ColoursOf(commands, colours) ==
  IF Len(commands) = 0 THEN colours
  ELSE ColoursOf(Tail(commands),
                 ItemStore(colours, _ledColourRead(Head(commands))))

\* The loop of getLedSizes over the items of the payload.
RECURSIVE LedSizesOf(_, _)
LedSizesOf(commands, sizes) ==
  IF Len(commands) = 0 THEN sizes
  ELSE LedSizesOf(Tail(commands),
                  ItemStore(sizes, _ledDimensionRead(Head(commands))))

\* The dict getColoursFromAll builds from the payload.
Colours_read(payload) == ColoursOf(NameList(payload), <<>>)

ColoursRead == [payload \in Payloads |-> Colours_read(payload)]

ColoursFrom(payload) ==
  IF payload \in Payloads THEN ColoursRead[payload]
  ELSE Colours_read(payload)

\* The dict getLedSizes builds from the payload.
LedSizes_read(payload) == LedSizesOf(NameList(payload), <<>>)

LedSizesRead == [payload \in Payloads |-> LedSizes_read(payload)]

LedSizesFrom(payload) ==
  IF payload \in Payloads THEN LedSizesRead[payload]
  ELSE LedSizes_read(payload)

\* getColoursFromAll, from the payload on: rstrip on a missing payload
\* raises AttributeError.
getColoursFromAll_read(s, r) ==
  IF r.exc # "" THEN Res(s, r.io, Raise(r.exc))
  ELSE IF r.payload = NoneV THEN Res(s, r.io, Raise("AttributeError"))
  ELSE Res(s, r.io, Return(Some(ColoursFrom(r.payload.some))))

\* getColoursFromAll
getColoursFromAll(s, line) ==
  getColoursFromAll_read(s, _sendAndReceivePayload(s.connection,
                                                   "getcolors", line))

\* getColour, the subscription colours[index]: KeyError on an absent key
getColour_item(c, i) ==
  IF i.out.kind = "raise" THEN After(c, i)
  ELSE IF i.out.value.some \in DOMAIN c.out.value.some
  THEN Res(i.self, c.io \o i.io,
           Return(Some(c.out.value.some[i.out.value.some])))
  ELSE Res(i.self, c.io \o i.io, Raise("KeyError"))

\* getColour, line 195: the subscripted getColoursFromAll() is evaluated
\* before the subscript _ledIndex(led).
getColour_index(c, led, countline) ==
  IF c.out.kind = "raise" THEN c
  ELSE getColour_item(c, _ledIndex(c.self, led, countline))

\* getColour
getColour(s, led, countline, line) ==
  getColour_index(getColoursFromAll(s, line), led, countline)

\* [self._ledIndex(arg) for arg in args]: the indexes in order, or the
\* first exception.
RECURSIVE LedIndexes(_, _, _)
LedIndexes(acc, args, countline) ==
  IF acc.out.kind = "raise" \/ Len(args) = 0 THEN acc
  ELSE LedIndexes(Defs_append(acc, _ledIndex(acc.self, args[1], countline)),
                  Tail(args), countline)

\* dict([(k, colours[k]) for k in colours if k in defs])
DictFilter(colours, defs) ==
  [k \in {x \in DOMAIN colours : \E j \in 1..Len(defs) : defs[j] = x}
     |-> colours[k]]

getColours_filter(d, c) ==
  IF c.out.kind = "raise" THEN After(d, c)
  ELSE Res(c.self, d.io \o c.io,
           Return(Some(DictFilter(c.out.value.some, d.out.value.some))))

getColours_read(d, line) ==
  IF d.out.kind = "raise" THEN d
  ELSE getColours_filter(d, getColoursFromAll(d.self, line))

\* getColours
getColours(s, args, countline, line) ==
  getColours_read(LedIndexes(Res(s, <<>>, Return(Some(<<>>))), args,
                             countline), line)

\* An empty list and an empty dict are different objects of Python:
\* [] == {} is False.
EmptyList == [list |-> <<>>]

EmptyDict == [dict |-> <<>>]

\* getLedSizes, from the payload on: rstrip on a missing payload raises
\* AttributeError before self._ledSizes is assigned.
getLedSizes_store(s, r) ==
  IF r.exc # "" THEN Res(s, r.io, Raise(r.exc))
  ELSE IF r.payload = NoneV THEN Res(s, r.io, Raise("AttributeError"))
  ELSE Res([s EXCEPT !._ledSizes = [dict |-> LedSizesFrom(r.payload.some)]],
           r.io, Return(Some([dict |-> LedSizesFrom(r.payload.some)])))

\* getLedSizes
getLedSizes(s, fresh, line) ==
  IF fresh \/ s._ledSizes = EmptyDict
  THEN getLedSizes_store(s, _sendAndReceivePayload(s.connection,
                                                   "getleds", line))
  ELSE Res(s, <<>>, Return(Some(s._ledSizes)))

\* A faulty format: the components are written in the order blue, green,
\* red.
_ledColourDef_format_bgr(i, rgb) ==
  IF i.out.kind = "raise" THEN i
  ELSE Res(i.self, i.io,
           Return(Some(IntToStr(i.out.value.some) \o "-"
                       \o IntToStr(rgb[3]) \o ","
                       \o IntToStr(rgb[2]) \o ","
                       \o IntToStr(rgb[1]))))

\* '%d-%d,%d,%d' of the LED index i and the three components
_ledColourDef_format(i, rgb) ==
  IF i.out.kind = "raise" THEN i
  ELSE Res(i.self, i.io,
           Return(Some(IntToStr(i.out.value.some) \o "-"
                       \o IntToStr(rgb[1]) \o ","
                       \o IntToStr(rgb[2]) \o ","
                       \o IntToStr(rgb[3]))))

\* _ledColourDef
_ledColourDef(s, led, rgb, countline) ==
  _ledColourDef_format(_ledIndex(s, led, countline), rgb)

\* The command 'setcolor:<defs>' is sent after the snippets d were built,
\* unless building them raised.
setColor_send(d, defs, line) ==
  IF d.out.kind = "raise" THEN d
  ELSE After(d, On(d.self, _sendAndExpectOk(d.self.connection,
                                            "setcolor:" \o defs, line)))

setColour_send(d, line) ==
  setColor_send(d, IF d.out.kind = "raise" THEN "" ELSE d.out.value.some,
                line)

\* setColour
setColour(s, led, rgb, countline, line) ==
  setColour_send(_ledColourDef(s, led, rgb, countline), line)

\* [self._ledColourDef(*arg) for arg in args]: the snippets in order, or
\* the first exception.
RECURSIVE ColourDefs(_, _, _)
ColourDefs(acc, args, countline) ==
  IF acc.out.kind = "raise" \/ Len(args) = 0 THEN acc
  ELSE ColourDefs(Defs_append(acc, _ledColourDef(acc.self, args[1][1],
                                                 args[1][2], countline)),
                  Tail(args), countline)

setColours_send(d, line) ==
  setColor_send(d, IF d.out.kind = "raise" THEN ""
                   ELSE Join(d.out.value.some, ";"), line)

\* setColours
setColours(s, args, countline, line) ==
  setColours_send(ColourDefs(Res(s, <<>>, Return(Some(<<>>))), args,
                             countline), line)

\* setColourToAll, from the count on: one snippet for each led of
\* range(count), where count is the result c of getCountLeds(fresh=False).
setColourToAll_defs(c, rgb, countline, line) ==
  IF c.out.kind = "raise" THEN c
  ELSE setColours_send(
         ColourDefs(Res(c.self, c.io, Return(Some(<<>>))),
                    [k \in 1..c.out.value.some |-> <<[index |-> k - 1], rgb>>],
                    countline),
         line)

\* A faulty setColourToAll: the count is fetched anew.
setColourToAll_fresh(s, rgb, countline, line) ==
  setColourToAll_defs(getCountLeds(s, TRUE, countline), rgb, countline, line)

\* setColourToAll
setColourToAll(s, rgb, countline, line) ==
  setColourToAll_defs(getCountLeds(s, FALSE, countline), rgb, countline, line)

(***************************************************************************)
(* The actions: one public method call each.                               *)
(***************************************************************************)

\* The call op(args) with result r is made: the object is updated and the
\* call is recorded.
Do(op, args, r) ==
  /\ calls < MaxCalls
  /\ self' = r.self
  /\ last' = [op |-> op, args |-> args, io |-> r.io, out |-> r.out]
  /\ calls' = calls + 1
  /\ connected' = (connected \/ (op = "connect" /\ r.out.kind = "return"))

\* The lines the server can send in answer to a call: a line is read only
\* from an open connection, so no answer is drawn for another one.
Answers(lines) == IF self.connection = "open" THEN lines ELSE {""}

\* The answers to the API key: one is drawn only when connect(), having
\* read the greeting, goes on to write the key.
KeyAnswers(greeting) ==
  IF Len(connect(self, "greets", greeting, "").io) > 1
  THEN KeyLines
  ELSE {""}

\* The LED references of a list of (led, value) pairs.
Leds(args) == [k \in 1..Len(args) |-> args[k][1]]

\* The answers to the getcountleds of an index resolution: it is sent only
\* when a zero-based index is resolved and no count is cached.
CountAnswers(leds) ==
  IF /\ self._countLeds = NoneV
     /\ \E k \in 1..Len(leds) : "index" \in DOMAIN leds[k]
  THEN Answers(IndexCountLines)
  ELSE {""}

Connect ==
  \/ \E sock \in SocketFailures :
       Do("connect", <<>>, connect(self, sock, "", ""))
  \/ \E greeting \in Greetings :
       \E keyline \in KeyAnswers(greeting) :
         Do("connect", <<>>, connect(self, "greets", greeting, keyline))

Disconnect ==
  \E line \in Answers(SuccessLines) :
    Do("disconnect", <<>>, disconnect(self, line))

Lock == \E line \in Answers(SuccessLines) : Do("lock", <<>>, lock(self, line))

Unlock ==
  \E line \in Answers(SuccessLines) : Do("unlock", <<>>, unlock(self, line))

GetDevices ==
  \E fresh \in BOOLEAN, line \in Answers(NameLines("getdevices")) :
    Do("getDevices", <<fresh>>, getDevices(self, fresh, line))

GetProfiles ==
  \E fresh \in BOOLEAN, line \in Answers(NameLines("getprofiles")) :
    Do("getProfiles", <<fresh>>, getProfiles(self, fresh, line))

GetScreenSize ==
  \E fresh \in BOOLEAN, line \in Answers(RectLines("getscreensize")) :
    Do("getScreenSize", <<fresh>>, getScreenSize(self, fresh, line))

GetCountLeds ==
  \E fresh \in BOOLEAN, line \in Answers(CountLines("getcountleds")) :
    Do("getCountLeds", <<fresh>>, getCountLeds(self, fresh, line))

GetMaxLeds ==
  \E fresh \in BOOLEAN, line \in Answers(CountLines("getmaxleds")) :
    Do("getMaxLeds", <<fresh>>, getMaxLeds(self, fresh, line))

GetCountMonitors ==
  \E fresh \in BOOLEAN, line \in Answers(CountLines("countmonitors")) :
    Do("getCountMonitors", <<fresh>>, getCountMonitors(self, fresh, line))

GetMonitorSize ==
  \E monitor \in Monitors, fresh \in BOOLEAN,
     line \in Answers(RectLines("getsizemonitor")) :
    Do("getMonitorSize", <<monitor, fresh>>,
       getMonitorSize(self, monitor, fresh, line))

GetDevice ==
  \E line \in Answers(WordLines("getdevice")) :
    Do("getDevice", <<>>, getDevice(self, line))

GetMode ==
  \E line \in Answers(WordLines("getmode")) :
    Do("getMode", <<>>, getMode(self, line))

GetProfile ==
  \E line \in Answers(WordLines("getprofile")) :
    Do("getProfile", <<>>, getProfile(self, line))

GetStatus ==
  \E line \in Answers(WordLines("getstatus")) :
    Do("getStatus", <<>>, getStatus(self, line))

GetLockStatus ==
  \E line \in Answers(WordLines("getlockstatus")) :
    Do("getLockStatus", <<>>, getLockStatus(self, line))

GetApiStatus ==
  \E line \in Answers(WordLines("getstatusapi")) :
    Do("getApiStatus", <<>>, getApiStatus(self, line))

GetFps ==
  \E line \in Answers(CountLines("getfps")) : Do("getFps", <<>>, getFps(self, line))

SetGamma ==
  \E line \in Answers(OkLines) : Do("setGamma", <<"2.0">>, setGamma(self, "2.0", line))

SetSmoothness ==
  \E v \in Counts, line \in Answers(SetLines) :
    Do("setSmoothness", <<v>>, setSmoothness(self, v, line))

SetBrightness ==
  \E v \in Counts, line \in Answers(SetLines) :
    Do("setBrightness", <<v>>, setBrightness(self, v, line))

SetDevice ==
  \E v \in Names, line \in Answers(SetLines) :
    Do("setDevice", <<v>>, setDevice(self, v, line))

SetMode ==
  \E v \in Names, line \in Answers(SetLines) :
    Do("setMode", <<v>>, setMode(self, v, line))

SetProfile ==
  \E v \in Names, line \in Answers(SetLines) :
    Do("setProfile", <<v>>, setProfile(self, v, line))

AddProfile ==
  \E v \in Names, line \in Answers(SetLines) :
    Do("addProfile", <<v>>, addProfile(self, v, line))

DeleteProfile ==
  \E v \in Names, line \in Answers(SetLines) :
    Do("deleteProfile", <<v>>, deleteProfile(self, v, line))

SetCountLeds ==
  \E v \in Counts, line \in Answers(OkLines) :
    Do("setCountLeds", <<v>>, setCountLeds(self, v, line))

SetSession ==
  \E v \in Names, line \in Answers(SetLines) :
    Do("setSession", <<v>>, setSession(self, v, line))

TurnOn == \E line \in Answers(SetLines) : Do("turnOn", <<>>, turnOn(self, line))

TurnOff == \E line \in Answers(SetLines) : Do("turnOff", <<>>, turnOff(self, line))

SetSize ==
  \E led \in LedRefs, rectangle \in Rectangles, line \in Answers(SetLines) :
    \E countline \in CountAnswers(<<led>>) :
      Do("setSize", <<led, rectangle>>,
         setSize(self, led, rectangle, countline, line))

SetSizes ==
  \E args \in SizeArgs, line \in Answers(SetLines) :
    \E countline \in CountAnswers(Leds(args)) :
      Do("setSizes", args, setSizes(self, args, countline, line))

GetColoursFromAll ==
  \E line \in Answers(ColourLines) :
    Do("getColoursFromAll", <<>>, getColoursFromAll(self, line))

GetColour ==
  \E led \in LedRefs, line \in Answers(ColourLines) :
    \E countline \in CountAnswers(<<led>>) :
      Do("getColour", <<led>>, getColour(self, led, countline, line))

GetColours ==
  \E args \in LedArgs, line \in Answers(ColourLines) :
    \E countline \in CountAnswers(args) :
      Do("getColours", args, getColours(self, args, countline, line))

GetLedSizes ==
  \E fresh \in BOOLEAN, line \in Answers(LedSizeLines) :
    Do("getLedSizes", <<fresh>>, getLedSizes(self, fresh, line))

SetColour ==
  \E led \in LedRefs, rgb \in Colours, line \in Answers(SetLines) :
    \E countline \in CountAnswers(<<led>>) :
      Do("setColour", <<led, rgb>>,
         setColour(self, led, rgb, countline, line))

SetColours ==
  \E args \in ColourArgs, line \in Answers(SetLines) :
    \E countline \in CountAnswers(Leds(args)) :
      Do("setColours", args, setColours(self, args, countline, line))

SetColourToAll ==
  \E rgb \in Colours, countline \in CountAnswers(<<[index |-> 0]>>),
     line \in Answers(SetLines) :
    Do("setColourToAll", <<rgb>>,
       setColourToAll(self, rgb, countline, line))

Next ==
  \/ Connect \/ Disconnect \/ Lock \/ Unlock
  \/ GetDevices \/ GetProfiles \/ GetScreenSize \/ GetCountLeds
  \/ GetMaxLeds \/ GetCountMonitors \/ GetMonitorSize
  \/ GetDevice \/ GetMode \/ GetProfile \/ GetStatus \/ GetLockStatus
  \/ GetApiStatus \/ GetFps
  \/ SetGamma \/ SetSmoothness \/ SetBrightness \/ SetDevice \/ SetMode
  \/ SetProfile \/ AddProfile \/ DeleteProfile \/ SetCountLeds
  \/ SetSession \/ TurnOn \/ TurnOff
  \/ SetSize \/ SetSizes
  \/ GetColoursFromAll \/ GetColour \/ GetColours \/ GetLedSizes
  \/ SetColour \/ SetColours \/ SetColourToAll

Spec == Init /\ [][Next]_vars

(***************************************************************************)
(* The codec specification: the encoding of colour assignments             *)
(* (_ledColourDef) and the decoding of item lists (getColoursFromAll,      *)
(* getLedSizes) applied once, on an open connection, to inputs drawn from  *)
(* bounded sets.                                                            *)
(***************************************************************************)

\* Wire indexes and colours of the assignments encoded.
WireIndexes == {1, 2, 10}

CodecColours == {<<0, 0, 0>>, <<255, 255, 255>>, <<0, 7, 255>>, <<255, 0, 7>>}

\* Items of a getcolors payload: two well-formed ones, then an empty item,
\* items without index, with two and with four components, and with fields
\* that are not integers.
ColourItems ==
  {"1-10,20,30", "2-5,5,5", "", "10,20,30", "-1,2,3", "3-1,2", "4-1,2,3,4",
   "5-a,b,c", "x-1,2,3", "6-1,,3"}

\* Items of a getleds payload, likewise.
LedSizeItems ==
  {"1-0,0,10,20", "2-10,0,10,20", "", "0,0,10,20", "3-0,0,10",
   "4-0,0,10,20,5", "5-a,0,10,20"}

\* The lists of one to MaxItems elements of S.
ItemLists(S) == UNION {[1..n -> S] : n \in 1..MaxItems}

\* The lists of assignments (wire index, colour) to different LEDs.
AssignmentLists ==
  {a \in ItemLists(WireIndexes \X CodecColours) :
     \A j, k \in 1..Len(a) : j # k => a[j][1] # a[k][1]}

\* ';'.join of the snippets _ledColourDef formats for the assignments
Encoded(a) ==
  Join([k \in 1..Len(a) |->
          _ledColourDef_format(Res(self, <<>>, Return(Some(a[k][1]))),
                               a[k][2]).out.value.some], ";")

\* The state after Lightpack() and a successful connect().
CodecInit ==
  /\ self = [led_map |-> NoneV,
             api_key |-> NoneV,
             connection |-> "open",
             _countLeds |-> NoneV,
             _countMonitors |-> NoneV,
             _devices |-> <<>>,
             _ledSizes |-> [list |-> <<>>],
             _maxLeds |-> NoneV,
             _monitor |-> <<>>,
             _profiles |-> <<>>,
             _screenSize |-> NoneV]
  /\ last = [op |-> "connect", args |-> <<>>,
             io |-> <<Rcv("Lightpack API v1.4")>>, out |-> Return(NoneV)]
  /\ calls = 0
  /\ connected = TRUE

\* One application, with the inputs kept in args.
Apply(op, args, r) ==
  /\ calls = 0
  /\ self' = r.self
  /\ last' = [op |-> op, args |-> args, io |-> r.io, out |-> r.out]
  /\ calls' = 1
  /\ UNCHANGED connected

\* getColoursFromAll reading what _ledColourDef wrote
EncodeDecode ==
  \E a \in AssignmentLists :
    Apply("getColoursFromAll", <<"assignments", a>>,
          getColoursFromAll(self, "getcolors:" \o Encoded(a)))

\* getColoursFromAll reading a list of items; a last item that is empty
\* makes the payload end with ';'
DecodeColours ==
  \E items \in ItemLists(ColourItems) :
    Apply("getColoursFromAll", <<"items", items>>,
          getColoursFromAll(self, "getcolors:" \o Join(items, ";")))

\* getLedSizes reading a list of items
DecodeLedSizes ==
  \E items \in ItemLists(LedSizeItems) :
    Apply("getLedSizes", <<"items", items>>,
          getLedSizes(self, TRUE, "getleds:" \o Join(items, ";")))

CodecNext == EncodeDecode \/ DecodeColours \/ DecodeLedSizes

CodecSpec == CodecInit /\ [][CodecNext]_vars

(***************************************************************************)
(* Vocabulary of the properties.                                           *)
(***************************************************************************)

\* The last response line a call read, and the last command it wrote.
LastLine(call) == call.io[Len(call.io)][2]

LastCommand(call) == call.io[Len(call.io) - 1][2]

\* The accessors of the session cache.
CacheAccessors ==
  {"getCountLeds", "getMaxLeds", "getDevices", "getProfiles",
   "getScreenSize", "getMonitorSize"}

\* The fresh argument of an accessor call (its last argument).
Fresh(call) == call.args[Len(call.args)]

\* The cache entry an accessor call is about, in object s: NoneV when it is
\* absent, Some(value) when it is populated.
Entry(s, call) ==
  CASE call.op = "getCountLeds" -> s._countLeds
    [] call.op = "getMaxLeds" -> s._maxLeds
    [] call.op = "getDevices" ->
         IF s._devices = <<>> THEN NoneV ELSE Some(s._devices)
    [] call.op = "getProfiles" ->
         IF s._profiles = <<>> THEN NoneV ELSE Some(s._profiles)
    [] call.op = "getScreenSize" -> s._screenSize
    [] call.op = "getMonitorSize" ->
         IF call.args[1] \in DOMAIN s._monitor
         THEN Some(s._monitor[call.args[1]])
         ELSE NoneV

\* The command that fetches the entry.
FetchCommand(call) ==
  CASE call.op = "getCountLeds" -> "getcountleds"
    [] call.op = "getMaxLeds" -> "getmaxleds"
    [] call.op = "getDevices" -> "getdevices"
    [] call.op = "getProfiles" -> "getprofiles"
    [] call.op = "getScreenSize" -> "getscreensize"
    [] call.op = "getMonitorSize" ->
         IF call.args[1] = 0 THEN "getsizemonitor:0" ELSE "getsizemonitor:1"

\* The call wrote exactly the fetch command and read its answer.
OneFetch(call) ==
  /\ Len(call.io) = 2
  /\ call.io[1] = Snd(FetchCommand(call))
  /\ call.io[2][1] = "recv"

\* The call returned an object other than None.
ReturnedValue(call) == call.out.kind = "return" /\ call.out.value # NoneV

(***************************************************************************)
(* C1.  A command line is written by a public operation only if an earlier *)
(* connect() of the session returned normally; after a connect() that      *)
(* failed no operation writes a command.                                   *)
(* This is the statement as claimed; the code violates it.                 *)
(***************************************************************************)
C1_NoCommandBeforeConnect ==
  (last.op # "connect" /\ Sent(last.io) # <<>>) => connected

(***************************************************************************)
(* C2.  An accessor called with fresh=False returns a populated entry      *)
(* without sending anything, and sends exactly one fetch command when the  *)
(* entry is absent (the connection being open).  Hence two consecutive     *)
(* fresh=False calls of the same accessor send at most one fetch in total. *)
(***************************************************************************)

\* A step that is a fresh=False call of a cache accessor does as described.
NonFreshCall ==
  (last'.op \in CacheAccessors /\ ~Fresh(last')) =>
    /\ Entry(self, last') # NoneV =>
         /\ last'.io = <<>>
         /\ last'.out = Return(Entry(self, last'))
         /\ self' = self
    /\ (Entry(self, last') = NoneV /\ self.connection = "open") =>
         OneFetch(last')

\* The step repeats the previous call: the same accessor, the same monitor,
\* fresh=False both times.
RepeatedNonFreshCall ==
  /\ last'.op \in CacheAccessors
  /\ last.op = last'.op
  /\ last.args = last'.args
  /\ ~Fresh(last')

\* C2 as claimed, on a session whose connect() has returned normally: any
\* two consecutive fresh=False calls send at most one fetch in total.  The
\* code violates it when the first fetch is not decoded.
C2_AtMostOneFetchAsClaimed ==
  [][NonFreshCall
     /\ ((connected /\ RepeatedNonFreshCall) =>
           Len(Sent(last.io)) + Len(Sent(last'.io)) <= 1)]_vars

\* C2 as amended: two consecutive fresh=False calls send at most one fetch in
\* total when the first of them returned a value other than None.
C2_NonFreshUsesCache ==
  [][NonFreshCall
     /\ ((RepeatedNonFreshCall /\ ReturnedValue(last)) =>
           Len(Sent(last.io)) + Len(Sent(last'.io)) <= 1)]_vars

\* A fresh=False call found the profile list cached and sent nothing.
C2_Witness ==
  /\ connected
  /\ last.op = "getProfiles"
  /\ last.args = <<FALSE>>
  /\ last.io = <<>>
  /\ last.out = Return(Some(<<"Lightpack", "Movie">>))
  /\ self._profiles = <<"Lightpack", "Movie">>

(***************************************************************************)
(* C3.  An accessor called with fresh=True sends exactly one fetch         *)
(* command whatever the cache holds, and the entry afterwards holds the    *)
(* value decoded from the response.                                        *)
(***************************************************************************)

\* The step is a fresh=True call of a cache accessor on an open connection.
FreshCall ==
  last'.op \in CacheAccessors /\ Fresh(last') /\ self.connection = "open"

\* What the well-formed responses of the model decode to.
Decoded(line) ==
  CASE line \in {"getcountleds:1", "getmaxleds:1"} -> Some(1)
    [] line \in {"getcountleds:2", "getmaxleds:2"} -> Some(2)
    [] line \in {"getdevices:Lightpack;Movie;", "getprofiles:Lightpack;Movie;"}
         -> Some(<<"Lightpack", "Movie">>)
    [] line \in {"getscreensize:0,0,100,50", "getsizemonitor:0,0,100,50"}
         -> Some(<<0, 0, 100, 50>>)
    [] OTHER -> NoneV

\* C3 as claimed, on a session whose connect() has returned normally:
\* after every fresh=True call the entry holds the value the call decoded.
\* The code violates it when the response is not decoded.
C3_FreshOverwritesAsClaimed ==
  [][(connected /\ FreshCall) =>
       /\ OneFetch(last')
       /\ ReturnedValue(last')
       /\ Entry(self', last') = last'.out.value]_vars

\* C3 as amended: one fetch is sent; when the call returns a value the entry
\* holds that value, which is the decoding of the response, and otherwise
\* (the call raises or returns None) the entry is as it was.
C3_FreshFetchesOnce ==
  [][FreshCall =>
       /\ OneFetch(last')
       /\ IF ReturnedValue(last')
          THEN /\ Entry(self', last') = last'.out.value
               /\ Decoded(LastLine(last')) # NoneV =>
                    last'.out.value = Decoded(LastLine(last'))
          ELSE /\ Entry(self', last') = Entry(self, last')
               /\ Decoded(LastLine(last')) = NoneV]_vars

\* A fresh=True call fetched the maximum LED count and stored it.
C3_Witness ==
  /\ connected
  /\ last.op = "getMaxLeds"
  /\ last.args = <<TRUE>>
  /\ last.io = <<Snd("getmaxleds"), Rcv("getmaxleds:2")>>
  /\ last.out = Return(Some(2))
  /\ self._maxLeds = Some(2)

(***************************************************************************)
(* C4.  When the fetch of getScreenSize or getMonitorSize yields an        *)
(* unavailable decode (empty payload, missing payload, not exactly four    *)
(* integers) the entry is left absent.                                     *)
(* This is the statement as claimed, on a session whose connect() has      *)
(* returned normally; the code violates it.                                *)
(***************************************************************************)

\* The responses that do not carry exactly four integers.
UnavailableLines ==
  {c \o t : c \in {"getscreensize", "getsizemonitor"},
            t \in {"", ":", ":0,0,100", ":0,0,100,50,7", ":a,b,c,d"}}

C4_UnavailableLeftAbsent ==
  [][(/\ connected
      /\ last'.op \in {"getScreenSize", "getMonitorSize"}
      /\ Entry(self, last') = NoneV
      /\ Len(last'.io) = 2
      /\ LastLine(last') \in UnavailableLines)
     => Entry(self', last') = NoneV]_vars

(***************************************************************************)
(* C5.  Every cache entry is absent at session start and, once populated,  *)
(* is never reset to absent; no operation other than the entry's own       *)
(* accessor changes it: the setters setCountLeds, addProfile,              *)
(* deleteProfile, setProfile, setDevice, setSize, setSizes, lock and       *)
(* unlock leave all cache entries unchanged.                               *)
(***************************************************************************)

\* The field of object s that holds the entry of accessor acc.
CacheField(s, acc) ==
  CASE acc = "getCountLeds" -> s._countLeds
    [] acc = "getMaxLeds" -> s._maxLeds
    [] acc = "getDevices" -> s._devices
    [] acc = "getProfiles" -> s._profiles
    [] acc = "getScreenSize" -> s._screenSize
    [] acc = "getMonitorSize" -> s._monitor

\* Every entry of object s is absent.
AllAbsent(s) ==
  /\ s._countLeds = NoneV /\ s._maxLeds = NoneV /\ s._screenSize = NoneV
  /\ s._devices = <<>> /\ s._profiles = <<>> /\ DOMAIN s._monitor = {}

\* No populated entry becomes absent in the step.
NeverReset ==
  /\ self._countLeds # NoneV => self'._countLeds # NoneV
  /\ self._maxLeds # NoneV => self'._maxLeds # NoneV
  /\ self._screenSize # NoneV => self'._screenSize # NoneV
  /\ self._devices # <<>> => self'._devices # <<>>
  /\ self._profiles # <<>> => self'._profiles # <<>>
  /\ DOMAIN self._monitor \subseteq DOMAIN self'._monitor

\* The setters the claim names.
NamedSetters ==
  {"setCountLeds", "addProfile", "deleteProfile", "setProfile", "setDevice",
   "setSize", "setSizes", "lock", "unlock"}

\* The operations that resolve a zero-based LED index, which calls
\* getCountLeds(fresh=False).
IndexResolvingOps ==
  {"setSize", "setSizes", "getColour", "getColours", "setColour",
   "setColours", "setColourToAll"}

\* C5 as claimed: an entry changes only in a call of its own accessor.  The
\* code violates it: setSize with a zero-based index fills an absent LED
\* count.
C5_FrameAsClaimed ==
  /\ AllAbsent(self)
  /\ [][/\ NeverReset
        /\ \A acc \in CacheAccessors :
             CacheField(self', acc) # CacheField(self, acc) => last'.op = acc
        /\ last'.op \in NamedSetters =>
             \A acc \in CacheAccessors :
               CacheField(self', acc) = CacheField(self, acc)]_vars

\* C5 as amended: an entry changes only in a call of its own accessor,
\* except that an operation resolving a zero-based LED index fills an
\* absent LED count by the getcountleds it sends.
C5_Frame ==
  /\ AllAbsent(self)
  /\ [][/\ NeverReset
        /\ \A acc \in CacheAccessors \ {"getCountLeds"} :
             CacheField(self', acc) # CacheField(self, acc) => last'.op = acc
        /\ self'._countLeds # self._countLeds =>
             \/ last'.op = "getCountLeds"
             \/ /\ last'.op \in IndexResolvingOps
                /\ self._countLeds = NoneV
                /\ \E k \in 1..Len(last'.io) :
                     last'.io[k] = Snd("getcountleds")
        /\ last'.op \in NamedSetters \ IndexResolvingOps =>
             \A acc \in CacheAccessors :
               CacheField(self', acc) = CacheField(self, acc)]_vars

\* setCountLeds(2) succeeded and the cached LED count is still 1.
C5_Witness ==
  /\ connected
  /\ last.op = "setCountLeds"
  /\ last.args = <<2>>
  /\ last.out = Return(NoneV)
  /\ self._countLeds = Some(1)

(***************************************************************************)
(* C6.  connect() fails with CannotConnectError whenever the greeting does *)
(* not match 'Lightpack API v<version>' at its start or <version> is not a *)
(* strict version; no other kind of error escapes.                         *)
(* This is the statement as claimed; the code violates it.                 *)
(***************************************************************************)

\* The greetings of the model that do not match the pattern, or whose
\* version text is no strict version.
MalformedGreetings ==
  {"Lightpack API v1", "Lightpack API v1.x", "Lightpack API v",
   "Lightpack v1.4", " Lightpack API v1.4", "Prismatik API v1.4", ""}

C6_MalformedGreetingRejected ==
  (/\ last.op = "connect"
   /\ last.io # <<>>
   /\ last.io[1][2] \in MalformedGreetings)
  => (last.out.kind = "raise" /\ last.out.exc = "CannotConnectError")

(***************************************************************************)
(* C7.  For a well-formed greeting connect() passes the version check if   *)
(* and only if 1.4 <= version <= 1.5, both ends included; any other        *)
(* version fails with the unsupported-version error.                       *)
(***************************************************************************)

\* The greetings of the model with a major.minor[.patch] version, and the
\* version each announces.
VersionedGreetings ==
  {[g |-> "Lightpack API v1.3", v |-> <<1, 3, 0>>],
   [g |-> "Lightpack API v1.4", v |-> <<1, 4, 0>>],
   [g |-> "Lightpack API v1.5", v |-> <<1, 5, 0>>],
   [g |-> "Lightpack API v1.6", v |-> <<1, 6, 0>>],
   [g |-> "Lightpack API v1.4.1", v |-> <<1, 4, 1>>],
   [g |-> "Lightpack API v1.5.0", v |-> <<1, 5, 0>>],
   [g |-> "Lightpack API v1.5.1", v |-> <<1, 5, 1>>],
   [g |-> "Lightpack API v1.10", v |-> <<1, 10, 0>>],
   [g |-> "Lightpack API v2.0", v |-> <<2, 0, 0>>],
   [g |-> "Lightpack API v1.4 (locked)", v |-> <<1, 4, 0>>]}

\* v lies in the supported range, bounds included.
InSupportedRange(v) ==
  /\ v[1] = 1
  /\ \/ v[2] = 4
     \/ v[2] = 5 /\ v[3] = 0

UnsupportedVersionError ==
  CannotConnectError("API version is not supported")

C7_VersionRange ==
  (last.op = "connect" /\ last.io # <<>>) =>
    \A w \in VersionedGreetings :
      last.io[1][2] = w.g =>
        IF InSupportedRange(w.v)
        THEN last.out \in {Return(NoneV), CannotConnectError("bad API key")}
        ELSE last.out = UnsupportedVersionError /\ Len(last.io) = 1

\* The greeting announced 1.5, the upper bound, and connect() returned.
C7_Witness ==
  /\ last.op = "connect"
  /\ last.io # <<>>
  /\ last.io[1] = Rcv("Lightpack API v1.5")
  /\ last.out = Return(NoneV)

(***************************************************************************)
(* C8.  connect() sends 'apikey:<key>' exactly when an API key is          *)
(* configured and the greeting and the version check have succeeded; it    *)
(* then succeeds if and only if the response is exactly 'ok' and fails     *)
(* with the connect error otherwise.  Without an API key connect() sends   *)
(* nothing.                                                                *)
(***************************************************************************)

\* The greetings of the model that pass the greeting and the version check.
SupportedGreetings ==
  {"Lightpack API v1.4", "Lightpack API v1.5", "Lightpack API v1.4.1",
   "Lightpack API v1.5.0", "Lightpack API v1.5b2",
   "Lightpack API v1.4 (locked)"}

\* The greeting a connect() call read was a supported one.
GreetedSupported(call) ==
  /\ call.io # <<>>
  /\ call.io[1][1] = "recv"
  /\ call.io[1][2] \in SupportedGreetings

C8_ApiKey ==
  last.op = "connect" =>
    /\ self.api_key = NoneV => Sent(last.io) = <<>>
    /\ (self.api_key = NoneV /\ GreetedSupported(last)) =>
         last.out = Return(NoneV)
    /\ Sent(last.io) # <<>> <=>
         (self.api_key # NoneV /\ GreetedSupported(last))
    /\ Sent(last.io) # <<>> =>
         /\ Len(last.io) = 3
         /\ last.io[2] = Snd("apikey:" \o self.api_key.some)
         /\ last.io[3][1] = "recv"
         /\ IF last.io[3][2] = "ok"
            THEN last.out = Return(NoneV)
            ELSE last.out = CannotConnectError("bad API key")

\* The key was sent after the greeting, answered 'ok', and connect() returned.
C8_Witness ==
  /\ last.op = "connect"
  /\ last.io = <<Rcv("Lightpack API v1.4"), Snd("apikey:secret"), Rcv("ok")>>
  /\ last.out = Return(NoneV)

(***************************************************************************)
(* C9.  disconnect() first sends 'unlock'; whether the response is         *)
(* 'unlock:success' or not (CommandFailedError, swallowed), the transport  *)
(* is closed before disconnect() returns and no error is raised.           *)
(***************************************************************************)
C9_DisconnectCloses ==
  (last.op = "disconnect" /\ last.io # <<>>) =>
    /\ Len(last.io) = 2
    /\ last.io[1] = Snd("unlock")
    /\ last.io[2][1] = "recv"
    /\ last.out = Return(NoneV)
    /\ self.connection = "closed"

\* The unlock of a disconnect() failed, and the connection is closed.
C9_Witness ==
  /\ connected
  /\ last.op = "disconnect"
  /\ last.io = <<Snd("unlock"), Rcv("unlock:not locked")>>
  /\ last.out = Return(NoneV)
  /\ self.connection = "closed"

(***************************************************************************)
(* C10.  A send-and-expect operation succeeds if and only if the response  *)
(* line equals the expected string; otherwise it raises CommandFailedError *)
(* with the command sent, the line received and the expected string.  The  *)
(* expected string is '<name>:success' for lock and unlock and 'ok' for    *)
(* the set-style commands.                                                 *)
(***************************************************************************)

\* The operations that expect 'ok'.
OkOps ==
  {"setGamma", "setSmoothness", "setBrightness", "setDevice", "setMode",
   "setProfile", "addProfile", "deleteProfile", "setCountLeds",
   "setSession", "turnOn", "turnOff", "setSize", "setSizes", "setColour",
   "setColours", "setColourToAll"}

\* The operations that expect '<name>:success'.
SuccessOps == {"lock", "unlock"}

\* The call got as far as sending its own command (not only the
\* getcountleds of an index resolution).
SentOwnCommand(call) ==
  Len(call.io) >= 2 /\ LastCommand(call) # "getcountleds"

ExpectedResponse(op) == IF op \in SuccessOps THEN op \o ":success" ELSE "ok"

C10_ExactResponse ==
  (last.op \in OkOps \cup SuccessOps /\ SentOwnCommand(last)) =>
    /\ last.op \in SuccessOps => LastCommand(last) = last.op
    /\ IF LastLine(last) = ExpectedResponse(last.op)
       THEN last.out = Return(NoneV)
       ELSE last.out = CommandFailedError(LastCommand(last), LastLine(last),
                                          ExpectedResponse(last.op))

\* lock() was answered 'lock:busy' and raised the error with its three fields.
C10_Witness ==
  /\ connected
  /\ last.op = "lock"
  /\ last.out = CommandFailedError("lock", "lock:busy", "lock:success")

(***************************************************************************)
(* C11.  setColourToAll(rgb) with a cached LED count n sends no            *)
(* getcountleds and exactly one command, 'setcolor:' followed by the       *)
(* assignments '<k>-<r>,<g>,<b>' for k = 1..n joined by ';', and requires  *)
(* the answer 'ok'.                                                        *)
(***************************************************************************)

\* The command for the colour (255, 0, 0) and n LEDs.
AllRed(n) ==
  CASE n = 1 -> "setcolor:1-255,0,0"
    [] n = 2 -> "setcolor:1-255,0,0;2-255,0,0"

C11_SetColourToAllUsesCachedCount ==
  [][(/\ last'.op = "setColourToAll"
      /\ last'.args = <<<<255, 0, 0>>>>
      /\ self.connection = "open"
      /\ self._countLeds # NoneV)
     => /\ Len(last'.io) = 2
        /\ last'.io[1] = Snd(AllRed(self._countLeds.some))
        /\ last'.io[2][1] = "recv"
        /\ self'._countLeds = self._countLeds
        /\ IF last'.io[2][2] = "ok"
           THEN last'.out = Return(NoneV)
           ELSE last'.out =
                  CommandFailedError(AllRed(self._countLeds.some),
                                     last'.io[2][2], "ok")]_vars

\* With the count 2 cached, setColourToAll wrote the two assignments only.
C11_Witness ==
  /\ connected
  /\ last.op = "setColourToAll"
  /\ self._countLeds = Some(2)
  /\ last.io = <<Snd("setcolor:1-255,0,0;2-255,0,0"), Rcv("ok")>>
  /\ last.out = Return(NoneV)

(***************************************************************************)
(* C12.  Resolving a zero-based index i gives the wire index i + 1 when    *)
(* i + 1 <= the cached LED count and fails with the index error when       *)
(* i + 1 exceeds it; every resolved wire index lies in 1..count.           *)
(***************************************************************************)

\* The operations with one LED reference, their first argument, and the
\* command they write for the wire index 1, 2 or 3.
OneLedOps == {"setSize", "setColour"}

OneLedCommand(op, index) ==
  CASE op = "setSize" /\ index = 1 -> "setleds:1-0,0,10,20"
    [] op = "setSize" /\ index = 2 -> "setleds:2-0,0,10,20"
    [] op = "setSize" /\ index = 3 -> "setleds:3-0,0,10,20"
    [] op = "setColour" /\ index = 1 -> "setcolor:1-255,0,0"
    [] op = "setColour" /\ index = 2 -> "setcolor:2-255,0,0"
    [] op = "setColour" /\ index = 3 -> "setcolor:3-255,0,0"

\* The call wrote the command of its operation for some wire index.
WroteOwnCommand(call) ==
  \E k \in 1..Len(call.io), index \in 1..3 :
    call.io[k] = Snd(OneLedCommand(call.op, index))

\* The call has a zero-based index as its LED reference.
IndexCall(call) ==
  call.op \in OneLedOps /\ "index" \in DOMAIN call.args[1]

\* After the call the LED count is the one the index was checked against:
\* the call changes it only by the getcountleds it sends when none is cached.
C12_IndexBound ==
  IndexCall(last) =>
    /\ WroteOwnCommand(last) => self._countLeds # NoneV
    /\ self._countLeds # NoneV =>
         IF last.args[1].index + 1 <= self._countLeds.some
         THEN /\ last.out # Raise("IndexError")
              /\ self.connection = "open" =>
                   last.io[Len(last.io) - 1] =
                     Snd(OneLedCommand(last.op, last.args[1].index + 1))
         ELSE /\ last.out = Raise("IndexError")
              /\ ~WroteOwnCommand(last)

\* Index 0 was resolved to the wire index 1 with one LED counted.
C12_Witness ==
  /\ connected
  /\ last.op = "setColour"
  /\ last.args[1] = [index |-> 0]
  /\ self._countLeds = Some(1)
  /\ last.io = <<Snd("setcolor:1-255,0,0"), Rcv("ok")>>

(***************************************************************************)
(* C13.  Resolving an alias gives its position in the configured list      *)
(* plus one; it fails with AliasDoesNotExistError when no list is          *)
(* configured or the alias is not in it; it never consults the LED count   *)
(* and sends no command.                                                   *)
(***************************************************************************)

\* The wire index of the aliases of the list ['left', 'right'].
AliasPosition(alias) ==
  CASE alias = "left" -> 1
    [] alias = "right" -> 2
    [] OTHER -> 0

\* The call has an alias as its LED reference.
AliasCall(call) ==
  call.op \in OneLedOps /\ "alias" \in DOMAIN call.args[1]

C13_AliasResolution ==
  AliasCall(last) =>
    /\ \A k \in 1..Len(last.io) : last.io[k] # Snd("getcountleds")
    /\ IF self.led_map # NoneV /\ AliasPosition(last.args[1].alias) > 0
       THEN /\ last.out # Raise("AliasDoesNotExistError")
            /\ self.connection = "open" =>
                 /\ Len(last.io) = 2
                 /\ last.io[1] =
                      Snd(OneLedCommand(last.op,
                                        AliasPosition(last.args[1].alias)))
       ELSE /\ last.out = Raise("AliasDoesNotExistError")
            /\ last.io = <<>>

\* 'right' was resolved to the wire index 2 with no LED count cached.
C13_Witness ==
  /\ connected
  /\ last.op = "setColour"
  /\ last.args[1] = [alias |-> "right"]
  /\ self._countLeds = NoneV
  /\ last.io = <<Snd("setcolor:2-255,0,0"), Rcv("ok")>>
  /\ last.out = Return(NoneV)

(***************************************************************************)
(* C14.  Resolving an LED reference performs no network I/O in any state:  *)
(* with no LED count cached, resolving a zero-based index sends no         *)
(* command, skips the bounds check and leaves the count absent.            *)
(* As claimed, on a session whose connect() has returned normally:         *)
(***************************************************************************)
C14_ResolverOfflineAsClaimed ==
  (connected /\ IndexCall(last)) =>
    \A k \in 1..Len(last.io) : last.io[k] # Snd("getcountleds")

\* C14 as amended: on an open connection, resolving a zero-based index
\* sends nothing when a count is cached; when none is cached it sends one
\* getcountleds first, stores the count decoded from the answer and checks
\* the index against it, and the call fails when the answer holds no count.
C14_ResolverFetchesAbsentCount ==
  [][(IndexCall(last') /\ self.connection = "open") =>
       IF self._countLeds # NoneV
       THEN /\ \A k \in 1..Len(last'.io) : last'.io[k] # Snd("getcountleds")
            /\ self'._countLeds = self._countLeds
       ELSE /\ Len(last'.io) >= 2
            /\ last'.io[1] = Snd("getcountleds")
            /\ last'.io[2][1] = "recv"
            /\ \A k \in 3..Len(last'.io) : last'.io[k] # Snd("getcountleds")
            /\ self'._countLeds = Decoded(last'.io[2][2])
            /\ Decoded(last'.io[2][2]) = NoneV =>
                 /\ Len(last'.io) = 2
                 /\ last'.out.kind = "raise"]_vars

\* With no count cached, setSize(0, ...) sent getcountleds before setleds
\* and the count is cached afterwards.
C14_Witness ==
  /\ connected
  /\ last.op = "setSize"
  /\ last.args[1] = [index |-> 0]
  /\ last.io = <<Snd("getcountleds"), Rcv("getcountleds:2"),
                 Snd("setleds:1-0,0,10,20"), Rcv("ok")>>
  /\ self._countLeds = Some(2)

(***************************************************************************)
(* C15.  Communication is strict request-then-response: each command       *)
(* written is followed by the read of one response line before the next    *)
(* command is written, and no line is read without a command written       *)
(* before it, except the greeting that connect() reads first.              *)
(***************************************************************************)

\* The traffic of a call after the greeting.
Exchanges(call) ==
  IF call.op = "connect" /\ call.io # <<>> THEN Tail(call.io) ELSE call.io

C16_MonitorsIndependent ==
  [][last'.op = "getMonitorSize" =>
       /\ \A k \in (DOMAIN self._monitor \cup DOMAIN self'._monitor)
                     \ {last'.args[1]} :
            /\ k \in DOMAIN self._monitor
            /\ k \in DOMAIN self'._monitor
            /\ self'._monitor[k] = self._monitor[k]
       /\ (~Fresh(last') /\ last'.args[1] \in DOMAIN self._monitor) =>
            /\ last'.io = <<>>
            /\ last'.out = Return(Some(self._monitor[last'.args[1]]))
            /\ self'._monitor = self._monitor]_vars

\* Monitor 1 was fetched while the size of monitor 0 was cached, and both
\* are cached now.
C16_Witness ==
  /\ connected
  /\ last.op = "getMonitorSize"
  /\ last.args[1] = 1
  /\ last.io = <<Snd("getsizemonitor:1"), Rcv("getsizemonitor:0,0,100,50")>>
  /\ DOMAIN self._monitor = {0, 1}
  /\ self._monitor[0] = <<0, 0, 100, 50>>

(***************************************************************************)
(* C17.  The LED sizes are cached like the other entries: the first        *)
(* getLedSizes(fresh=False) of a session that never fetched them sends     *)
(* one getleds command.  As claimed, on an open connection of a session    *)
(* whose connect() has returned normally:                                  *)
(***************************************************************************)
C17_FirstReadFetches ==
  [][(/\ last'.op = "getLedSizes"
      /\ ~Fresh(last')
      /\ connected
      /\ self.connection = "open"
      /\ self._ledSizes = EmptyList)
     => /\ Len(last'.io) = 2
        /\ last'.io[1] = Snd("getleds")
        /\ last'.io[2][1] = "recv"]_vars

(***************************************************************************)
(* C18.  Colour round trip: for a wire index i >= 1 and components in      *)
(* 0..255, decoding the encoding of the assignment (i, (r, g, b)) gives    *)
(* the mapping {i: (r, g, b)}, and decoding several encoded assignments    *)
(* joined with ';' gives the mapping of all of them.                       *)
(***************************************************************************)

\* The dict of the pairs (key, value) that Item gives for the elements of
\* items, NoneV being no pair; a later pair replaces an earlier one of the
\* same key.
Pairs(items, Item(_)) ==
  {j \in 1..Len(items) : Item(items[j]) # NoneV}

ExpectedDict(items, Item(_)) ==
  [key \in {Item(items[j]).some[1] : j \in Pairs(items, Item)} |->
     Item(items[CHOOSE j \in Pairs(items, Item) :
                  /\ Item(items[j]).some[1] = key
                  /\ \A k \in Pairs(items, Item) :
                       Item(items[k]).some[1] = key => k <= j]).some[2]]

\* The call applied the codec to the given kind of input.
Applied(op, kind) ==
  last.op = op /\ Len(last.args) = 2 /\ last.args[1] = kind

C18_ColourRoundTrip ==
  Applied("getColoursFromAll", "assignments") =>
    last.out = Return(Some(ExpectedDict(last.args[2], LAMBDA a : Some(a))))

\* Two assignments, to the LEDs 1 and 10, came back as they were encoded.
C18_Witness ==
  /\ Applied("getColoursFromAll", "assignments")
  /\ last.args[2] = <<<<1, <<0, 7, 255>>>>, <<10, <<255, 255, 255>>>>>>
  /\ last.io[2] = Rcv("getcolors:1-0,7,255;10-255,255,255")
  /\ last.out = Return(Some(1 :> <<0, 7, 255>> @@ 10 :> <<255, 255, 255>>))

(***************************************************************************)
(* C19.  Decoding a ';'-joined list of LED items never fails because of a  *)
(* malformed item: an item that is empty, has no index, has not exactly    *)
(* three (colours) or four (rectangles) numeric components or holds a      *)
(* field that is not an integer is skipped, and every well-formed item of  *)
(* the same payload is returned.                                           *)
(***************************************************************************)

\* What the well-formed items stand for; every other item is malformed.
ColourOfItem(item) ==
  CASE item = "1-10,20,30" -> Some(<<1, <<10, 20, 30>>>>)
    [] item = "2-5,5,5" -> Some(<<2, <<5, 5, 5>>>>)
    [] OTHER -> NoneV

LedSizeOfItem(item) ==
  CASE item = "1-0,0,10,20" -> Some(<<1, <<0, 0, 10, 20>>>>)
    [] item = "2-10,0,10,20" -> Some(<<2, <<10, 0, 10, 20>>>>)
    [] OTHER -> NoneV

C19_MalformedItemsSkipped ==
  /\ Applied("getColoursFromAll", "items") =>
       last.out = Return(Some(ExpectedDict(last.args[2], ColourOfItem)))
  /\ Applied("getLedSizes", "items") =>
       /\ last.out =
            Return(Some([dict |-> ExpectedDict(last.args[2], LedSizeOfItem)]))
       /\ self._ledSizes = last.out.value.some

\* The payload '1-10,20,30;;2-5,5,5' gave the colours of the LEDs 1 and 2.
C19_Witness ==
  /\ Applied("getColoursFromAll", "items")
  /\ last.args[2] = <<"1-10,20,30", "", "2-5,5,5">>
  /\ last.io[2] = Rcv("getcolors:1-10,20,30;;2-5,5,5")
  /\ last.out = Return(Some(1 :> <<10, 20, 30>> @@ 2 :> <<5, 5, 5>>))

(***************************************************************************)
(* C20.  getScreenSize returns a tuple of exactly four integers or None,   *)
(* never a tuple of another length: a payload that is empty or does not    *)
(* hold four integers gives None.  As claimed, for a fetch on a session    *)
(* whose connect() has returned normally:                                  *)
(***************************************************************************)
C20_ScreenSizeFourOrNone ==
  (connected /\ last.op = "getScreenSize" /\ Len(last.io) = 2) =>
    IF LastLine(last) = "getscreensize:0,0,100,50"
    THEN last.out = Return(Some(<<0, 0, 100, 50>>))
    ELSE last.out = Return(NoneV)

(***************************************************************************)
(* C21.  In every LED-addressed operation (getColour, getColours,          *)
(* setColour, setColours, setSize, setSizes) an LED reference that does    *)
(* not resolve (unknown alias, no alias list, index beyond the cached LED  *)
(* count) raises its error before the operation's own command (getcolors,  *)
(* setcolor, setleds) is written: the setters of several LEDs send all     *)
(* assignments or none.                                                    *)
(***************************************************************************)

LedOps ==
  {"getColour", "getColours", "setColour", "setColours", "setSize",
   "setSizes"}

\* The LED references of a call, in the order they are resolved.
Refs(call) ==
  CASE call.op \in {"getColour", "setColour", "setSize"} -> <<call.args[1]>>
    [] call.op = "getColours" -> call.args
    [] call.op \in {"setColours", "setSizes"} -> Leds(call.args)

\* The reference does not resolve on the object as it is after the call:
\* the call changes neither the alias list nor a count it found cached, and
\* a count it fetched is the one its indexes were checked against.
Unresolvable(ref) ==
  IF "alias" \in DOMAIN ref
  THEN self.led_map = NoneV \/ AliasPosition(ref.alias) = 0
  ELSE self._countLeds # NoneV /\ ref.index + 1 > self._countLeds.some

SomeUnresolvable(call) ==
  \E k \in 1..Len(Refs(call)) : Unresolvable(Refs(call)[k])

\* The call wrote a command other than the getcountleds of a resolution.
WroteCommand(call) ==
  \E k \in 1..Len(call.io) :
    call.io[k][1] = "send" /\ call.io[k] # Snd("getcountleds")

LocalErrors == {Raise("AliasDoesNotExistError"), Raise("IndexError")}

\* As claimed, on a session whose connect() has returned normally:
C21_ErrorBeforeCommandAsClaimed ==
  (connected /\ last.op \in LedOps /\ SomeUnresolvable(last)) =>
    ~WroteCommand(last)

\* C21 as amended: getColours, setColour, setColours, setSize and setSizes
\* resolve every reference before they write their command, so with a
\* reference that does not resolve they raise and write no command (at most
\* the getcountleds of an index resolution); the error is the local one
\* unless that getcountleds was answered without a count.  getColour writes
\* getcolors and reads the answer first, and raises the local error after
\* it (AttributeError when the answer has no payload).
C21_ErrorBeforeCommand ==
  /\ (last.op \in LedOps \ {"getColour"} /\ SomeUnresolvable(last)) =>
       /\ ~WroteCommand(last)
       /\ last.out.kind = "raise"
       /\ last.out \in LocalErrors \/ self._countLeds = NoneV
  /\ (/\ last.op = "getColour"
      /\ SomeUnresolvable(last)
      /\ self.connection = "open") =>
       /\ Len(last.io) >= 2
       /\ last.io[1] = Snd("getcolors")
       /\ last.io[2][1] = "recv"
       /\ last.out.kind = "raise"
       /\ IF last.io[2][2] = "getcolors"
          THEN last.out = Raise("AttributeError") /\ Len(last.io) = 2
          ELSE last.out \in LocalErrors \/ self._countLeds = NoneV

\* setSizes resolved its first reference, fetching the count, failed on the
\* second one and wrote no setleds.
C21_Witness ==
  /\ connected
  /\ last.op = "setSizes"
  /\ Refs(last) = <<[index |-> 0], [alias |-> "top"]>>
  /\ last.io = <<Snd("getcountleds"), Rcv("getcountleds:2")>>
  /\ last.out = Raise("AliasDoesNotExistError")

=============================================================================
